---- MODULE Spec2Model ----
(***************************************************************************)
(* State-machine model of market_fetcher.py: slot generation, concurrent   *)
(* token lookups, label dedup, the 3-of-4 quorum filter and the rewrite of *)
(* upcoming_markets.txt, driven by fetcher_loop or by a standalone run.    *)
(*                                                                         *)
(* Text is a sequence of atoms.  An atom is an indivisible piece of a      *)
(* string: a literal of a format string, a run of blanks, a newline, or a  *)
(* value (a label, a url, a token id).  Emoji of the source are written    *)
(* <clock>, <check> and <cross>.                                           *)
(***************************************************************************)
EXTENDS Integers, Sequences, FiniteSets, TLC

\* ------------------------------------------------------------ constants

\* market_fetcher.py:25
INTERVAL == 900

\* market_fetcher.py:26
FETCH_INTERVAL == 900

\* market_fetcher.py:27 has COUNT = 10; the model generates fewer slots per
\* cycle.  5 is the least count whose window spans a whole hour.
COUNT == 5

\* market_fetcher.py:88 has max_workers=20; the model's pool is smaller.
max_workers == 2

\* market_fetcher.py:29
CRYPTOS == <<"btc", "eth", "sol", "xrp">>

\* str.upper() on the members of CRYPTOS (market_fetcher.py:84, 103) and on
\* the coins a and b
upper(coin) ==
    CASE coin = "btc" -> "BTC"
      [] coin = "eth" -> "ETH"
      [] coin = "sol" -> "SOL"
      [] coin = "xrp" -> "XRP"
      [] coin = "a" -> "A"
      [] coin = "b" -> "B"

\* the threshold of market_fetcher.py:159
QUORUM == 3

\* the tuple of market_fetcher.py:157, as strings
NotValidYes == {<<"Not indexed">>, <<"Error">>, <<"N/A">>}

\* ------------------------------------------------------------ text

NL == "\n"

\* the blanks the format strings use: one, three and eight spaces
Blanks == {" ", "   ", "        "}

\* what str.rstrip() and the regex class \s take
IsSpace(a) == a \in Blanks \/ a = NL

\* "-" * 70 (market_fetcher.py:132, 136)
DASHES ==
    "----------------------------------------------------------------------"

RECURSIVE rstrip(_)
\* str.rstrip()
rstrip(s) ==
    IF s = <<>> THEN <<>>
    ELSE IF IsSpace(s[Len(s)]) THEN rstrip(SubSeq(s, 1, Len(s) - 1))
    ELSE s

\* s.endswith("-" * 70)
endswith_dashes(s) == s # <<>> /\ s[Len(s)] = DASHES

RECURSIVE join(_, _)
\* sep.join(parts)
join(sep, parts) ==
    IF parts = <<>> THEN <<>>
    ELSE IF Len(parts) = 1 THEN parts[1]
    ELSE parts[1] \o sep \o join(sep, Tail(parts))

\* ------------------------------------------------------------ time

\* days since 1970-01-01 of a proleptic Gregorian date
DaysFromCivil(y, m, d) ==
    LET yy  == IF m <= 2 THEN y - 1 ELSE y
        era == yy \div 400
        yoe == yy - era * 400
        mp  == IF m > 2 THEN m - 3 ELSE m + 9
        doy == (153 * mp + 2) \div 5 + d - 1
        doe == yoe * 365 + yoe \div 4 - yoe \div 100 + doy
    IN  era * 146097 + doe - 719468

\* the date <<year, month, day>> of a day number
CivilFromDays(z) ==
    LET zz  == z + 719468
        era == zz \div 146097
        doe == zz - era * 146097
        yoe == (doe - doe \div 1460 + doe \div 36524 - doe \div 146096) \div 365
        doy == doe - (365 * yoe + yoe \div 4 - yoe \div 100)
        mp  == (5 * doy + 2) \div 153
        d   == doy - (153 * mp + 2) \div 5 + 1
        m   == IF mp < 10 THEN mp + 3 ELSE mp - 9
        y   == yoe + era * 400
    IN  << IF m <= 2 THEN y + 1 ELSE y, m, d >>

\* the first Sunday on or after a day number (1970-01-01 was a Thursday)
SundayOnOrAfter(day) == day + ((7 - ((day + 4) % 7)) % 7)

\* ZoneInfo("America/New_York").utcoffset, in seconds: daylight time from
\* 02:00 EST on the second Sunday of March to 02:00 EDT on the first Sunday
\* of November (the rule in force since 2007)
utcoffset(ts) ==
    LET y      == CivilFromDays(ts \div 86400)[1]
        start  == SundayOnOrAfter(DaysFromCivil(y, 3, 8)) * 86400 + 7 * 3600
        finish == SundayOnOrAfter(DaysFromCivil(y, 11, 1)) * 86400 + 6 * 3600
    IN  IF start <= ts /\ ts < finish THEN -(4 * 3600) ELSE -(5 * 3600)

Pad2(n) == IF n < 10 THEN "0" \o ToString(n) ELSE ToString(n)

\* datetime.fromtimestamp(ts, tz=ET_TZ).strftime("%Y-%m-%d %I:%M %p EST")
display_time(ts) ==
    LET local == ts + utcoffset(ts)
        ymd   == CivilFromDays(local \div 86400)
        sod   == local % 86400
        H     == sod \div 3600
        M     == (sod % 3600) \div 60
        I     == IF H % 12 = 0 THEN 12 ELSE H % 12
        p     == IF H < 12 THEN "AM" ELSE "PM"
    IN  ToString(ymd[1]) \o "-" \o Pad2(ymd[2]) \o "-" \o Pad2(ymd[3])
          \o " " \o Pad2(I) \o ":" \o Pad2(M) \o " " \o p \o " EST"

\* ------------------------------------------------------------ log text

RECURSIVE skip_space(_, _)
\* the index after the longest run of \s that starts at index i
skip_space(s, i) ==
    IF i <= Len(s) /\ IsSpace(s[i]) THEN skip_space(s, i + 1) ELSE i

RECURSIVE end_of_line(_, _)
\* the index of the first newline at or after index i, Len(s) + 1 if none
end_of_line(s, i) ==
    IF i <= Len(s) /\ s[i] # NL THEN end_of_line(s, i + 1) ELSE i

RECURSIVE next_clock(_, _)
\* the index of the first <clock> at or after index i, Len(s) + 1 if none
next_clock(s, i) ==
    IF i <= Len(s) /\ s[i] # "<clock>" THEN next_clock(s, i + 1) ELSE i

RECURSIVE last_blank(_, _, _)
\* the greatest index in lo..hi that holds a blank, 0 if none: where the
\* group (.+) starts once \s* has given back the end of the text
last_blank(s, lo, hi) ==
    IF hi < lo THEN 0
    ELSE IF s[hi] \in Blanks THEN hi
    ELSE last_blank(s, lo, hi - 1)

RECURSIVE findall_slot(_, _)
\* re.findall(r"<clock>\s*Slot:\s*(.+)", s) from index i on: the groups of
\* the non-overlapping matches, left to right
findall_slot(s, i) ==
    LET c == next_clock(s, i)
        j == skip_space(s, c + 1)
        k == skip_space(s, j + 1)
        b == last_blank(s, j + 1, Len(s))
    IN  IF c > Len(s) THEN <<>>
        ELSE IF j > Len(s) \/ s[j] # "Slot:" THEN findall_slot(s, c + 1)
        ELSE IF k <= Len(s)
             THEN <<SubSeq(s, k, end_of_line(s, k) - 1)>>
                    \o findall_slot(s, end_of_line(s, k))
        ELSE IF b > 0
             THEN << <<" ">> >> \o findall_slot(s, b + 1)
        ELSE findall_slot(s, c + 1)

\* set(...) of a list
set_of(list) == {list[i] : i \in 1..Len(list)}

\* format_slot_block(slot) (market_fetcher.py:112-121)
format_slot_block(slot) ==
    LET market_lines(crypto) ==
            IF crypto \in DOMAIN slot.markets
            THEN LET m == slot.markets[crypto]
                 IN  << <<"   ", crypto \o ":", " ">> \o m.url,
                        <<"        ", "<check> YES:", " ">> \o m.yes,
                        <<"        ", "<cross> NO :", " ">> \o m.no >>
            ELSE <<>>
        lines == << <<"<clock>", " ", "Slot:", " ">> \o slot.label >>
                   \o market_lines("BTC") \o market_lines("ETH")
                   \o market_lines("SOL") \o market_lines("XRP")
    IN  join(<<NL>>, lines)

\* ------------------------------------------------------------ the service

\* The Gamma API's answer to GET <base>/<slug>, as requests.get sees it:
\*   raises  the call raises (connection failure, timeout)
\*   status  the response's status code
\*   body    "malformed" (no JSON), "not_object" (JSON, no object) or "object"
\*   field   clobTokenIds of the object: "absent", "null", "garbage" (a
\*           string that is no JSON) or "array" (a string that encodes tokens)
\*   tokens  the encoded array
Response(raises, status, body, field, tokens) ==
    [raises |-> raises, status |-> status, body |-> body, field |-> field,
     tokens |-> tokens]

\* f"{coin}-updown-15m-{next_timestamp}" (market_fetcher.py:83)
slug_of(coin, ts) == coin \o "-updown-15m-" \o ToString(ts)

\* the k-th token id the service holds for a market: a digit string
token_id(coin, ts, k) ==
    LET n == CHOOSE i \in 1..Len(CRYPTOS) : CRYPTOS[i] = coin
    IN  <<ToString(ts) \o ToString(n) \o ToString(k)>>

\* the token ids of an indexed market, one per side
token_ids(coin, ts) == <<token_id(coin, ts, 1), token_id(coin, ts, 2)>>

\* the answers of the service by name; "ok" is an indexed market
Answer(how, coin, ts) ==
    CASE how = "ok"        -> Response(FALSE, 200, "object", "array", token_ids(coin, ts))
      [] how = "one"       -> Response(FALSE, 200, "object", "array", SubSeq(token_ids(coin, ts), 1, 1))
      [] how = "empty"     -> Response(FALSE, 200, "object", "array", <<>>)
      [] how = "absent"    -> Response(FALSE, 200, "object", "absent", <<>>)
      [] how = "null"      -> Response(FALSE, 200, "object", "null", <<>>)
      [] how = "garbage"   -> Response(FALSE, 200, "object", "garbage", <<>>)
      [] how = "notobject" -> Response(FALSE, 200, "not_object", "absent", <<>>)
      [] how = "malformed" -> Response(FALSE, 200, "malformed", "absent", <<>>)
      [] how = "status"    -> Response(FALSE, 404, "object", "absent", <<>>)
      [] how = "raise"     -> Response(TRUE, 0, "malformed", "absent", <<>>)

\* _fetch_single_market without the test of the status code
fetch_single_market_any_status(slug, crypto_label, resp) ==
    LET url    == <<"https://polymarket.com/event/" \o slug>>
        error  == [label |-> crypto_label, url |-> url,
                   yes |-> <<"Error">>, no |-> <<"Error">>]
        tokens == IF resp.field = "absent" THEN <<>> ELSE resp.tokens
    IN  IF resp.raises THEN error
        ELSE IF resp.body # "object" THEN error
        ELSE IF resp.field \in {"null", "garbage"} THEN error
        ELSE [label |-> crypto_label, url |-> url,
              yes |-> IF Len(tokens) > 0 THEN tokens[1] ELSE <<"N/A">>,
              no  |-> IF Len(tokens) > 1 THEN tokens[2] ELSE <<"N/A">>]

\* _fetch_single_market with len(tokens) > 1 in both tests
fetch_single_market_off_by_one(slug, crypto_label, resp) ==
    LET url    == <<"https://polymarket.com/event/" \o slug>>
        error  == [label |-> crypto_label, url |-> url,
                   yes |-> <<"Error">>, no |-> <<"Error">>]
        tokens == IF resp.field = "absent" THEN <<>> ELSE resp.tokens
    IN  IF resp.raises THEN error
        ELSE IF resp.status # 200 THEN error
        ELSE IF resp.body # "object" THEN error
        ELSE IF resp.field \in {"null", "garbage"} THEN error
        ELSE [label |-> crypto_label, url |-> url,
              yes |-> IF Len(tokens) > 1 THEN tokens[1] ELSE <<"N/A">>,
              no  |-> IF Len(tokens) > 1 THEN tokens[2] ELSE <<"N/A">>]

\* _fetch_single_market(slug, crypto_label) given the service's answer
\* (market_fetcher.py:50-61)
fetch_single_market(slug, crypto_label, resp) ==
    LET url    == <<"https://polymarket.com/event/" \o slug>>
        error  == [label |-> crypto_label, url |-> url,
                   yes |-> <<"Error">>, no |-> <<"Error">>]
        tokens == IF resp.field = "absent" THEN <<>> ELSE resp.tokens
    IN  IF resp.raises THEN error
        ELSE IF resp.status # 200 THEN error
        ELSE IF resp.body # "object" THEN error
        ELSE IF resp.field \in {"null", "garbage"} THEN error
        ELSE [label |-> crypto_label, url |-> url,
              yes |-> IF Len(tokens) > 0 THEN tokens[1] ELSE <<"N/A">>,
              no  |-> IF Len(tokens) > 1 THEN tokens[2] ELSE <<"N/A">>]

\* ------------------------------------------------------------ bounds

\* an outage of the service takes the markets whose number is r modulo m,
\* for m up to MaxMod
MaxMod == 3

\* fetcher_loop sleeps at most MaxPeriods times
MaxPeriods == 2

\* ------------------------------------------------------------ state

\* fetcher_loop's thread and a standalone run of the script
Procs == {"loop", "main"}

VARIABLES
    now,              \* time.time()
    periods,          \* the sleeps fetcher_loop has finished
    outage,           \* the service: which markets fail to resolve, and how
    file,             \* MARKETS_FILE: whether it exists, and its text
    pc,               \* where each process is
    existing_labels,  \* discover_and_append's existing_labels
    slot_meta,        \* fetch_upcoming_slots' slot_meta
    started,          \* tasks the pool has handed to a worker
    running,          \* tasks a worker is running
    results,          \* fetch_upcoming_slots' results
    fetched_slots,    \* discover_and_append's fetched_slots
    new_slots,        \* discover_and_append's new_slots
    existing,         \* append_new_slots' existing
    outage0,          \* history: the service when the process began its cycle
    prev,             \* history: the last cycle that ran to its end, and the
                      \* slots skipped for want of a quorum up to it
    call,             \* a function called on its own: its name and arguments
    ret               \* what that call returned

vars == <<now, periods, outage, file, pc, existing_labels, slot_meta, started,
          running, results, fetched_slots, new_slots, existing, outage0, prev,
          call, ret>>

\* the variables of a call of one function on its own
unit == <<call, ret>>

locals == <<existing_labels, slot_meta, started, running, results,
            fetched_slots, existing>>

\* the service resolves every market
NoOutage == [m |-> 0, r |-> 0, how |-> "ok"]

\* the outages of the model, of the given ways to fail
Outages(hows) ==
    {NoOutage} \cup
    {o \in [m : 1..MaxMod, r : 0..(MaxMod - 1), how : hows] : o.r < o.m}

\* markets are numbered by slot, then by their place in CRYPTOS
market_number(coin, ts) ==
    4 * (ts \div INTERVAL) + (CHOOSE i \in 1..Len(CRYPTOS) : CRYPTOS[i] = coin) - 1

\* what the service answers for a market under outage o
service_answer(o, coin, ts) ==
    IF o.m > 0 /\ market_number(coin, ts) % o.m = o.r
    THEN Answer(o.how, coin, ts)
    ELSE Answer("ok", coin, ts)

\* no file
NoFile == [exists |-> FALSE, text |-> <<>>]

\* the first reference time: 300 s into the interval that starts 90
\* minutes before daylight time ends in 2026 (2026-11-01 04:35:00 UTC)
FirstNow ==
    SundayOnOrAfter(DaysFromCivil(2026, 11, 1)) * 86400 + 6 * 3600
      - 6 * INTERVAL + 300

NoResults == [k \in {} |-> 0]

NoPrev == [set |-> FALSE, now |-> 0, outage |-> NoOutage, rejected |-> {}]

NoCall == [op |-> "none"]

NoRet == [done |-> FALSE]

InitLocals ==
    /\ pc = [p \in Procs |-> "idle"]
    /\ existing_labels = [p \in Procs |-> {}]
    /\ slot_meta = [p \in Procs |-> <<>>]
    /\ started = [p \in Procs |-> 0]
    /\ running = [p \in Procs |-> {}]
    /\ results = [p \in Procs |-> NoResults]
    /\ fetched_slots = [p \in Procs |-> <<>>]
    /\ new_slots = [p \in Procs |-> <<>>]
    /\ existing = [p \in Procs |-> <<>>]
    /\ outage0 = [p \in Procs |-> NoOutage]
    /\ prev = NoPrev

\* the script has not run, the log does not exist, and the service is in
\* one of the outages in which a lookup ends in a 404, in an empty array or
\* in an exception of the request
Init ==
    /\ now = FirstNow
    /\ periods = 0
    /\ outage \in Outages({"status", "empty", "raise"})
    /\ file = NoFile
    /\ InitLocals
    /\ call = NoCall
    /\ ret = NoRet

\* ------------------------------------------------------------ the pipeline

\* get_existing_slot_labels with a pattern that matches nothing
get_existing_slot_labels_none(f) == {}

\* get_existing_slot_labels() (market_fetcher.py:42-47)
get_existing_slot_labels(f) ==
    IF ~f.exists THEN {} ELSE set_of(findall_slot(f.text, 1))

\* the timestamps with range(COUNT) for range(1, COUNT + 1)
timestamps_from_zero(t, interval, count) ==
    LET last_interval == t - (t % interval)
    IN  [i \in 1..count |-> last_interval + ((i - 1) * interval)]

\* next_timestamp of each turn of the loop of market_fetcher.py:71-77, for
\* time.time() = t, INTERVAL = interval and COUNT = count
timestamps_at(t, interval, count) ==
    LET last_interval == t - (t % interval)
    IN  [i \in 1..count |-> last_interval + (i * interval)]

\* slot_meta of fetch_upcoming_slots for time.time() = t
\* (market_fetcher.py:70-80)
slot_meta_at(t) ==
    [i \in 1..COUNT |->
       LET next_timestamp == timestamps_at(t, INTERVAL, COUNT)[i]
       IN  [label |-> <<display_time(next_timestamp)>>,
            timestamp |-> next_timestamp]]

\* the n-th task of fetch_upcoming_slots in order of submission
\* (market_fetcher.py:74-84): (i - 1, coin.upper(), slug), with the coin and
\* the timestamp the slug is made of
task_at(meta, n) ==
    LET i    == (n - 1) \div Len(CRYPTOS) + 1
        coin == CRYPTOS[((n - 1) % Len(CRYPTOS)) + 1]
    IN  [idx |-> i - 1, crypto_label |-> upper(coin),
         slug |-> slug_of(coin, meta[i].timestamp),
         coin |-> coin, timestamp |-> meta[i].timestamp]

Min(a, b) == IF a < b THEN a ELSE b

\* a cycle that begins whether or not the one before it has ended
Begin_while_running(p) ==
    /\ pc' = [pc EXCEPT ![p] = "resolve"]
    /\ existing_labels' = [existing_labels EXCEPT ![p] = get_existing_slot_labels(file)]
    /\ slot_meta' = [slot_meta EXCEPT ![p] = slot_meta_at(now')]
    /\ started' = [started EXCEPT ![p] = Min(max_workers, COUNT * Len(CRYPTOS))]
    /\ running' = [running EXCEPT ![p] = 1..Min(max_workers, COUNT * Len(CRYPTOS))]
    /\ results' = [results EXCEPT ![p] = NoResults]
    /\ outage0' = [outage0 EXCEPT ![p] = outage]
    /\ UNCHANGED <<outage, file, fetched_slots, new_slots, existing, prev, unit>>

\* discover_and_append up to the submission of the lookups
\* (market_fetcher.py:146, 70-92)
Begin(p) ==
    /\ pc[p] = "idle"
    /\ pc' = [pc EXCEPT ![p] = "resolve"]
    /\ existing_labels' = [existing_labels EXCEPT ![p] = get_existing_slot_labels(file)]
    /\ slot_meta' = [slot_meta EXCEPT ![p] = slot_meta_at(now')]
    /\ started' = [started EXCEPT ![p] = Min(max_workers, COUNT * Len(CRYPTOS))]
    /\ running' = [running EXCEPT ![p] = 1..Min(max_workers, COUNT * Len(CRYPTOS))]
    /\ results' = [results EXCEPT ![p] = NoResults]
    /\ outage0' = [outage0 EXCEPT ![p] = outage]
    /\ UNCHANGED <<outage, file, fetched_slots, new_slots, existing, prev, unit>>

\* every process is between cycles
AllIdle == \A q \in Procs : pc[q] = "idle"

\* fetcher_loop: time.sleep(FETCH_INTERVAL) returns and the cycle begins
\* (market_fetcher.py:178-181)
Elapse ==
    /\ periods < MaxPeriods
    /\ now' = now + FETCH_INTERVAL
    /\ periods' = periods + 1
    /\ Begin("loop")

\* python market_fetcher.py (market_fetcher.py:194-197)
Run ==
    /\ UNCHANGED <<now, periods>>
    /\ Begin("main")

\* a lookup ends and as_completed hands its result to the loop of
\* market_fetcher.py:93-96; the worker takes the next task of the queue
TaskDone(p, n) ==
    /\ pc[p] = "resolve"
    /\ n \in running[p]
    /\ LET task   == task_at(slot_meta[p], n)
           total  == Len(slot_meta[p]) * Len(CRYPTOS)
           r      == fetch_single_market(task.slug, task.crypto_label,
                        service_answer(outage, task.coin, task.timestamp))
           more   == started[p] < total
       IN  /\ results' = [results EXCEPT ![p] =
                   (<<task.idx, task.crypto_label>> :>
                        [url |-> r.url, yes |-> r.yes, no |-> r.no]) @@ @]
           /\ started' = [started EXCEPT ![p] = IF more THEN @ + 1 ELSE @]
           /\ running' = [running EXCEPT ![p] =
                   (@ \ {n}) \cup (IF more THEN {started[p] + 1} ELSE {})]
    /\ UNCHANGED <<now, periods, outage, file, pc, existing_labels, slot_meta,
                   fetched_slots, new_slots, existing, outage0, prev, unit>>

\* the slot list of market_fetcher.py:98-109 looking results up by i + 1
assemble_shifted(meta, res) ==
    [i \in 1..COUNT |->
       [label |-> meta[i].label,
        markets |->
          [crypto_label \in {upper(CRYPTOS[c]) : c \in 1..Len(CRYPTOS)} |->
             IF <<i, crypto_label>> \in DOMAIN res
             THEN res[<<i, crypto_label>>]
             ELSE [url |-> <<>>, yes |-> <<"Error">>, no |-> <<"Error">>]]]]

\* the slot list of market_fetcher.py:98-109
assemble(meta, res) ==
    [i \in 1..COUNT |->
       [label |-> meta[i].label,
        markets |->
          [crypto_label \in {upper(CRYPTOS[c]) : c \in 1..Len(CRYPTOS)} |->
             IF <<i - 1, crypto_label>> \in DOMAIN res
             THEN res[<<i - 1, crypto_label>>]
             ELSE [url |-> <<>>, yes |-> <<"Error">>, no |-> <<"Error">>]]]]

\* the pool has run every task: fetch_upcoming_slots returns
Assemble(p) ==
    /\ pc[p] = "resolve"
    /\ running[p] = {}
    /\ pc' = [pc EXCEPT ![p] = "filter"]
    /\ fetched_slots' = [fetched_slots EXCEPT ![p] = assemble(slot_meta[p], results[p])]
    /\ UNCHANGED <<now, periods, outage, file, existing_labels, slot_meta,
                   started, running, results, new_slots, existing, outage0, prev, unit>>

\* valid_tokens of market_fetcher.py:155-158
valid_tokens(slot) ==
    Cardinality({c \in DOMAIN slot.markets : slot.markets[c].yes \notin NotValidYes})

\* the test of market_fetcher.py:159 with a threshold of 2
has_quorum_two(slot) == valid_tokens(slot) >= 2

\* the test of market_fetcher.py:159 with > for >=
has_quorum_strict(slot) == valid_tokens(slot) > QUORUM

\* the test of market_fetcher.py:159 as a majority of the slot's assets
has_quorum_majority(slot) ==
    2 * valid_tokens(slot) > Cardinality(DOMAIN slot.markets)

\* the test of market_fetcher.py:159
has_quorum(slot) == valid_tokens(slot) >= QUORUM

RECURSIVE reversed(_)
reversed(list) ==
    IF list = <<>> THEN <<>> ELSE reversed(Tail(list)) \o <<Head(list)>>

\* new_slots of market_fetcher.py:152-165 with each new slot put first
select_new_prepend(slots, labels) ==
    LET keep(slot) == slot.label \notin labels /\ has_quorum(slot)
    IN  reversed(SelectSeq(slots, keep))

\* new_slots of market_fetcher.py:152-165
select_new(slots, labels) ==
    LET keep(slot) == slot.label \notin labels /\ has_quorum(slot)
    IN  SelectSeq(slots, keep)

\* the locals of a process once its cycle is over
Reset(p) ==
    /\ existing_labels' = [existing_labels EXCEPT ![p] = {}]
    /\ slot_meta' = [slot_meta EXCEPT ![p] = <<>>]
    /\ started' = [started EXCEPT ![p] = 0]
    /\ running' = [running EXCEPT ![p] = {}]
    /\ results' = [results EXCEPT ![p] = NoResults]
    /\ fetched_slots' = [fetched_slots EXCEPT ![p] = <<>>]
    /\ existing' = [existing EXCEPT ![p] = <<>>]
    /\ outage0' = [outage0 EXCEPT ![p] = NoOutage]

\* the reference time of a cycle in progress (market_fetcher.py:70), as
\* far as the slots tell it
cycle_base(p) == slot_meta[p][1].timestamp - INTERVAL

\* the timestamps of the slots the cycle of p skips for want of a quorum
\* (market_fetcher.py:153-163, the else of the test of valid_tokens)
below_quorum(p) ==
    {slot_meta[p][i].timestamp :
        i \in {i \in 1..Len(fetched_slots[p]) :
                  /\ fetched_slots[p][i].label \notin existing_labels[p]
                  /\ ~has_quorum(fetched_slots[p][i])}}

\* the cycle of p ends without an exception
Completed(p) ==
    prev' = [set |-> TRUE, now |-> cycle_base(p), outage |-> outage0[p],
             rejected |-> prev.rejected \cup below_quorum(p)]

\* market_fetcher.py:152-173, with nothing new: the cycle ends
FilterNone(p) ==
    /\ pc[p] = "filter"
    /\ select_new(fetched_slots[p], existing_labels[p]) = <<>>
    /\ pc' = [pc EXCEPT ![p] = "idle"]
    /\ new_slots' = [new_slots EXCEPT ![p] = <<>>]
    /\ Reset(p)
    /\ Completed(p)
    /\ UNCHANGED <<now, periods, outage, file, unit>>

\* market_fetcher.py:152-168, with new slots: append_new_slots is called
FilterSome(p) ==
    /\ pc[p] = "filter"
    /\ select_new(fetched_slots[p], existing_labels[p]) # <<>>
    /\ pc' = [pc EXCEPT ![p] = "append_read"]
    /\ new_slots' = [new_slots EXCEPT ![p] = select_new(fetched_slots[p], existing_labels[p])]
    /\ UNCHANGED <<now, periods, outage, file, existing_labels, slot_meta, started,
                   running, results, fetched_slots, existing, outage0, prev, unit>>

\* existing of append_new_slots without the test of market_fetcher.py:132
read_existing_unstripped(f) ==
    IF ~f.exists THEN <<>> ELSE rstrip(f.text)

\* existing of append_new_slots (market_fetcher.py:129-133)
read_existing(f) ==
    IF ~f.exists THEN <<>>
    ELSE LET text == rstrip(f.text)
         IN  IF endswith_dashes(text)
             THEN rstrip(SubSeq(text, 1, Len(text) - 1))
             ELSE text

\* market_fetcher.py:126-133
AppendRead(p) ==
    /\ pc[p] = "append_read"
    /\ pc' = [pc EXCEPT ![p] = "append_write"]
    /\ existing' = [existing EXCEPT ![p] = read_existing(file)]
    /\ UNCHANGED <<now, periods, outage, file, existing_labels, slot_meta, started,
                   running, results, fetched_slots, new_slots, outage0, prev, unit>>

\* new_content of append_new_slots with the new blocks before existing
new_content_prepended(old, slots) ==
    LET blocks == [i \in 1..Len(slots) |-> format_slot_block(slots[i])]
    IN  <<NL, NL>> \o join(<<NL, NL>>, blocks) \o old \o <<NL, NL>>
            \o <<DASHES>> \o <<NL>>

\* new_content of append_new_slots (market_fetcher.py:135-136)
new_content(old, slots) ==
    LET blocks == [i \in 1..Len(slots) |-> format_slot_block(slots[i])]
    IN  old \o <<NL, NL>> \o join(<<NL, NL>>, blocks) \o <<NL, NL>>
            \o <<DASHES>> \o <<NL>>

\* market_fetcher.py:135-138 and 169-173: the file is rewritten and the
\* cycle ends
AppendWrite(p) ==
    /\ pc[p] = "append_write"
    /\ file' = [exists |-> TRUE, text |-> new_content(existing[p], new_slots[p])]
    /\ pc' = [pc EXCEPT ![p] = "idle"]
    /\ new_slots' = [new_slots EXCEPT ![p] = <<>>]
    /\ Reset(p)
    /\ Completed(p)
    /\ UNCHANGED <<now, periods, outage, unit>>

\* the outage of the service ends
Recover ==
    /\ outage # NoOutage
    /\ outage' = NoOutage
    /\ UNCHANGED <<now, periods, file, pc, locals, new_slots, outage0, prev, unit>>

\* append_new_slots without the test of market_fetcher.py:126
append_new_slots_unguarded(f, slots) ==
    [count |-> Len(slots),
     file |-> [exists |-> TRUE,
               text |-> new_content(read_existing(f), slots)],
     reads |-> IF f.exists THEN 1 ELSE 0, writes |-> 1]

\* append_new_slots(new_slots) on file f, as one call
\* (market_fetcher.py:124-138): the count it returns, the file it leaves,
\* and how often it reads and writes the file
append_new_slots(f, slots) ==
    IF slots = <<>>
    THEN [count |-> 0, file |-> f, reads |-> 0, writes |-> 0]
    ELSE [count |-> Len(slots),
          file |-> [exists |-> TRUE,
                    text |-> new_content(read_existing(f), slots)],
          reads |-> IF f.exists THEN 1 ELSE 0, writes |-> 1]

\* market_fetcher.py:152-173 as one call: the slots it returns and the file
\* it leaves
discover_tail(f, fetched, labels) ==
    LET new == select_new(fetched, labels)
    IN  [new_slots |-> new,
         file |-> IF new # <<>> THEN append_new_slots(f, new).file ELSE f]

\* the lengths at which a failing write_text may leave the new text: at
\* nothing, before each block, and before the closing line of dashes
cut_points(text) ==
    {0} \cup {k \in 1..(Len(text) - 1) : text[k + 1] \in {"<clock>", DASHES}}

\* write_text raises and nothing catches the exception: the thread of
\* fetcher_loop ends
WriteFail_uncaught(p) ==
    /\ pc[p] = "append_write"
    /\ LET text == new_content(existing[p], new_slots[p])
       IN  \/ file' = file
           \/ \E k \in cut_points(text) :
                  file' = [exists |-> TRUE, text |-> SubSeq(text, 1, k)]
    /\ pc' = [pc EXCEPT ![p] = "terminated"]
    /\ new_slots' = [new_slots EXCEPT ![p] = <<>>]
    /\ Reset(p)
    /\ prev' = NoPrev
    /\ UNCHANGED <<now, periods, outage, unit>>

\* MARKETS_FILE.write_text raises (market_fetcher.py:137): opening the file
\* failed and the file is as it was, or the file was truncated and holds a
\* part of the new text.  The exception leaves append_new_slots and
\* discover_and_append; fetcher_loop catches it (market_fetcher.py:182-183).
WriteFail(p) ==
    /\ pc[p] = "append_write"
    /\ LET text == new_content(existing[p], new_slots[p])
       IN  \/ file' = file
           \/ \E k \in cut_points(text) :
                  file' = [exists |-> TRUE, text |-> SubSeq(text, 1, k)]
    /\ pc' = [pc EXCEPT ![p] = "idle"]
    /\ new_slots' = [new_slots EXCEPT ![p] = <<>>]
    /\ Reset(p)
    /\ prev' = NoPrev
    /\ UNCHANGED <<now, periods, outage, unit>>

\* the steps of a cycle once it has begun
Cycle(p) ==
    \/ \E n \in running[p] : TaskDone(p, n)
    \/ Assemble(p)
    \/ FilterNone(p)
    \/ FilterSome(p)
    \/ AppendRead(p)
    \/ AppendWrite(p)

\* fetcher_loop alone: the periodic scheduler
Next ==
    \/ Elapse
    \/ Cycle("loop")
    \/ AllIdle /\ Recover

Spec == Init /\ [][Next]_vars

\* the script alone, run by hand any number of times
NextStandalone ==
    \/ Run
    \/ Cycle("main")
    \/ AllIdle /\ Recover

SpecStandalone == Init /\ [][NextStandalone]_vars

\* fetcher_loop alone, with writes of the log that may fail
NextFault ==
    \/ Next
    \/ WriteFail("loop")

SpecFault == Init /\ [][NextFault]_vars

\* the program before its first cycle, with a service that resolves every
\* market
InitIndexed == Init /\ outage = NoOutage

\* fetcher_loop alone, with writes of the log that may fail, and a service
\* that resolves every market
NextContain ==
    \/ Elapse
    \/ Cycle("loop")
    \/ WriteFail("loop")

\* time.sleep(FETCH_INTERVAL) returns (market_fetcher.py:179).  Elapse is
\* the one action that counts a period, so a step that counts a period is a
\* step of Elapse, and it can be taken exactly when Elapse can.
Sleeps ==
    /\ pc["loop"] = "idle"
    /\ periods < MaxPeriods
    /\ periods' = periods + 1

\* the sleep of fetcher_loop always returns
SpecContain == InitIndexed /\ [][NextContain]_vars /\ WF_periods(Sleeps)

\* the first cycle of fetcher_loop and standalone runs on the same log,
\* neither waiting for the other, with a service that resolves every market
NextPair ==
    \/ periods = 0 /\ Elapse
    \/ Run
    \/ Cycle("loop")
    \/ Cycle("main")

SpecPair == InitIndexed /\ [][NextPair]_vars

\* ------------------------------------------------------------ single calls

\* a token array holds at most MaxTokens ids
MaxTokens == 3

CryptoLabels == {upper(CRYPTOS[c]) : c \in 1..Len(CRYPTOS)}

\* the answers a lookup may get
Responses(coin, ts) ==
    {Answer("raise", coin, ts)} \cup
    {Response(FALSE, st, b, f, <<>>) :
        st \in {200, 204, 404, 500},
        b \in {"malformed", "not_object", "object"},
        f \in {"absent", "null", "garbage"}} \cup
    {Response(FALSE, st, b, "array", [k \in 1..n |-> token_id(coin, ts, k)]) :
        st \in {200, 204, 404, 500},
        b \in {"malformed", "not_object", "object"},
        n \in 0..MaxTokens}

\* calls of _fetch_single_market
FetchCalls ==
    UNION {{[op |-> "fetch", slug |-> slug_of(CRYPTOS[c], FirstNow),
             crypto_label |-> upper(CRYPTOS[c]), resp |-> r] :
               r \in Responses(CRYPTOS[c], FirstNow)} : c \in 1..Len(CRYPTOS)}

\* the market entries of a resolved slot
Entries ==
    [url : {<<"https://polymarket.com/event/x">>},
     yes : {<<"N/A">>, <<"Error">>, <<"Not indexed">>, <<"71">>},
     no  : {<<"N/A">>, <<"72">>}]

\* calls of the filter of discover_and_append on one resolved slot
SelectCalls ==
    {[op |-> "select",
      slots |-> <<[label |-> <<"2026-11-01 12:30 AM EST">>, markets |-> m]>>,
      labels |-> l] :
        m \in [CryptoLabels -> Entries],
        l \in {{}, {<<"2026-11-01 12:30 AM EST">>},
                   {<<"2026-11-01 12:45 AM EST">>}}}

\* a resolved slot whose first n assets have a token and whose others failed
sample_slot(ts, n) ==
    [label |-> <<display_time(ts)>>,
     markets |-> [cl \in CryptoLabels |->
        LET c == CHOOSE c \in 1..Len(CRYPTOS) : upper(CRYPTOS[c]) = cl
        IN  fetch_single_market(slug_of(CRYPTOS[c], ts), cl,
               Answer(IF c <= n THEN "ok" ELSE "status", CRYPTOS[c], ts))]]

\* the logs a call may find: none, an empty one, one with a block and its
\* closing line, and one with a block and no closing line
SampleFiles ==
    LET block == format_slot_block(sample_slot(FirstNow - 300, 4))
    IN  {NoFile,
         [exists |-> TRUE, text |-> <<>>],
         [exists |-> TRUE, text |-> <<NL, NL>> \o block \o <<NL, NL, DASHES, NL>>],
         [exists |-> TRUE, text |-> <<NL, NL>> \o block \o <<NL>>]}

\* the slot lists a call may get: up to two slots, each with 0..4 tokens
SampleLists ==
    {<<>>} \cup
    {<<sample_slot(FirstNow + 600, a)>> : a \in 0..4} \cup
    {<<sample_slot(FirstNow + 600, a), sample_slot(FirstNow + 1500, b)>> :
        a \in 0..4, b \in 0..4}

\* calls of append_new_slots
AppendCalls ==
    {[op |-> "append", f |-> f, slots |-> l] :
        f \in SampleFiles, l \in SampleLists}

\* calls of the second half of discover_and_append
TailCalls ==
    {[op |-> "tail", f |-> f, slots |-> l, labels |-> get_existing_slot_labels(f)] :
        f \in SampleFiles, l \in SampleLists}

\* a reference time is up to MaxNow seconds after 0 or after 1000
MaxNow == 25

\* an interval is INTERVAL or up to MaxInterval seconds
MaxInterval == 10

\* up to MaxCount timestamps are generated
MaxCount == 3

\* calls of the slot generator of fetch_upcoming_slots
GenerateCalls ==
    {[op |-> "generate", now |-> t, interval |-> I, count |-> N] :
        t \in (0..MaxNow) \cup {1000 + d : d \in 0..MaxNow}
                \cup {FirstNow, FirstNow + 600},
        I \in (1..MaxInterval) \cup {INTERVAL},
        N \in 0..MaxCount}

\* fetch_upcoming_slots (market_fetcher.py:64-109) for time.time() = t,
\* INTERVAL = interval, COUNT = count and CRYPTOS = assets, when the service
\* holds two tokens for the markets of the coins in indexed and answers 404
\* for the others
fetch_upcoming_slots(t, interval, count, assets, indexed) ==
    LET ts == timestamps_at(t, interval, count)
    IN  [i \in 1..count |->
           [label |-> <<display_time(ts[i])>>,
            markets |->
              [cl \in {upper(assets[c]) : c \in 1..Len(assets)} |->
                 LET coin == assets[CHOOSE c \in 1..Len(assets) : upper(assets[c]) = cl]
                     slug == slug_of(coin, ts[i])
                     resp == IF coin \in indexed
                             THEN Response(FALSE, 200, "object", "array",
                                     << <<"1" \o slug>>, <<"2" \o slug>> >>)
                             ELSE Answer("status", coin, ts[i])
                     r    == fetch_single_market(slug, cl, resp)
                 IN  [url |-> r.url, yes |-> r.yes, no |-> r.no]]]]

\* discover_and_append() (market_fetcher.py:141-173) on file f, as one
\* call, with the same parameters: the slots it returns and the file it
\* leaves
discover_and_append(f, t, interval, count, assets, indexed) ==
    discover_tail(f, fetch_upcoming_slots(t, interval, count, assets, indexed),
                  get_existing_slot_labels(f))

\* two runs of discover_and_append at one reference time, the first
\* without a log: for 1..MaxCount slots 10 seconds apart, for the coins a
\* and b and for the coins of CRYPTOS, and for every set of indexed coins
ScenarioCalls ==
    UNION {{[op |-> "scenario", now |-> t, interval |-> 10, count |-> N,
             assets |-> as, indexed |-> ix] :
               t \in {1000, 1003}, N \in 1..MaxCount,
               ix \in SUBSET {as[c] : c \in 1..Len(as)}} :
           as \in {<<"a", "b">>, CRYPTOS}}

\* the labels a slot may carry: one that display_time makes, the empty
\* string, one that begins with a blank, one that ends with a blank, and one
\* with a line end in it
SampleLabels ==
    {<<"2026-11-01 12:30 AM EST">>, <<>>, <<" ", "x">>, <<"x", " ">>,
     <<"x", NL, "y">>}

\* the strings a url or a token may be: a token id, a sentinel, the empty
\* string, and a string that holds the text of a slot line
SampleStrings ==
    {<<"71">>, <<"N/A">>, <<>>, <<"<clock>", " ", "Slot:", " ", "x">>}

\* calls of get_existing_slot_labels on the text format_slot_block makes of
\* a slot
RoundTripCalls ==
    {[op |-> "roundtrip",
      slot |-> [label |-> l,
                markets |-> [cl \in CryptoLabels |->
                    IF cl = "BTC" THEN [url |-> u, yes |-> y, no |-> <<"72">>]
                    ELSE IF cl = "XRP" THEN [url |-> <<"u">>, yes |-> <<"73">>, no |-> n]
                    ELSE [url |-> <<"u">>, yes |-> <<"74">>, no |-> <<"75">>]]]] :
        l \in SampleLabels, u \in SampleStrings, y \in SampleStrings,
        n \in SampleStrings}

InitUnit ==
    /\ now = FirstNow
    /\ periods = 0
    /\ outage = NoOutage
    /\ file = NoFile
    /\ InitLocals
    /\ call \in FetchCalls \cup SelectCalls \cup AppendCalls \cup TailCalls
                 \cup RoundTripCalls \cup GenerateCalls \cup ScenarioCalls
    /\ ret = NoRet

Returns(value) ==
    /\ ~ret.done
    /\ ret' = [done |-> TRUE, value |-> value]
    /\ UNCHANGED <<now, periods, outage, file, pc, locals, new_slots, outage0,
                   prev, call>>

CallFetch ==
    /\ call.op = "fetch"
    /\ Returns(fetch_single_market(call.slug, call.crypto_label, call.resp))

CallSelect ==
    /\ call.op = "select"
    /\ Returns(select_new(call.slots, call.labels))

CallAppend ==
    /\ call.op = "append"
    /\ Returns(append_new_slots(call.f, call.slots))

CallTail ==
    /\ call.op = "tail"
    /\ Returns(discover_tail(call.f, call.slots, call.labels))

CallRoundTrip ==
    /\ call.op = "roundtrip"
    /\ Returns(get_existing_slot_labels(
                  [exists |-> TRUE, text |-> format_slot_block(call.slot)]))

CallGenerate ==
    /\ call.op = "generate"
    /\ Returns(timestamps_at(call.now, call.interval, call.count))

CallScenario ==
    /\ call.op = "scenario"
    /\ LET first == discover_and_append(NoFile, call.now, call.interval,
                        call.count, call.assets, call.indexed)
       IN  Returns([first |-> first,
                    second |-> discover_and_append(first.file, call.now,
                        call.interval, call.count, call.assets, call.indexed)])

NextUnit ==
    \/ CallFetch
    \/ CallSelect
    \/ CallAppend
    \/ CallTail
    \/ CallRoundTrip
    \/ CallGenerate
    \/ CallScenario

\* one call of one function, on arguments drawn from the sets above
SpecUnit == InitUnit /\ [][NextUnit]_vars

\* ------------------------------------------------------------ reading the log

\* the places of a text where a block begins, in order
block_starts(text) ==
    LET begins(i) == text[i] = "<clock>"
    IN  SelectSeq([i \in 1..Len(text) |-> i], begins)

\* the last place of the k-th block of a text whose blocks begin at starts
block_end(text, starts, k) ==
    IF k < Len(starts) THEN starts[k + 1] - 1 ELSE Len(text)

\* the label of each block of a text, in order
block_labels(text) ==
    LET starts == block_starts(text)
    IN  [k \in 1..Len(starts) |-> text[starts[k] + 4]]

\* a text without the blanks, line ends and lines of dashes at its end
RECURSIVE trimmed(_)
trimmed(s) ==
    IF s = <<>> THEN s
    ELSE IF IsSpace(s[Len(s)]) \/ s[Len(s)] = DASHES
         THEN trimmed(SubSeq(s, 1, Len(s) - 1))
         ELSE s

\* the blocks of a text, in order
blocks_of(text) ==
    LET starts == block_starts(text)
    IN  [k \in 1..Len(starts) |->
           trimmed(SubSeq(text, starts[k], block_end(text, starts, k)))]

IsPrefix(a, b) == Len(a) <= Len(b) /\ SubSeq(b, 1, Len(a)) = a

\* the YES values of the k-th block of a text that are tokens
valid_yes_in_block(text, starts, k) ==
    {i \in starts[k]..block_end(text, starts, k) :
        /\ text[i] = "<check> YES:"
        /\ i + 2 <= Len(text)
        /\ text[i + 2] \notin {"N/A", "Error", "Not indexed"}}

\* the assets of a resolved slot whose yes token is a token
valid_assets(slot) ==
    {a \in DOMAIN slot.markets :
        /\ slot.markets[a].yes # <<"N/A">>
        /\ slot.markets[a].yes # <<"Error">>
        /\ slot.markets[a].yes # <<"Not indexed">>}

\* ------------------------------------------------------------ C1

\* p is about to filter the slots of a run that follows a run, ended without
\* an exception, at the same reference time and with the service as it was
SecondRun(p) ==
    /\ pc[p] = "filter"
    /\ prev.set
    /\ prev.now = cycle_base(p)
    /\ prev.outage = outage0[p]
    /\ outage = outage0[p]

\* C1: a second run of discover_and_append at the same reference time, with
\* the service unchanged, against the log the first run left, accepts no slot
\* and leaves the log as it is.
C1_Idempotent ==
    [][\A p \in Procs :
          (SecondRun(p) /\ pc'[p] # "filter")
              => /\ pc'[p] = "idle"
                 /\ new_slots'[p] = <<>>
                 /\ file' = file]_vars

\* a second run is about to filter resolved slots of which one has a quorum,
\* against a log that holds blocks
C1_Witness ==
    \E p \in Procs :
        /\ SecondRun(p)
        /\ file.exists
        /\ block_starts(file.text) # <<>>
        /\ \E i \in 1..Len(fetched_slots[p]) :
               Cardinality(valid_assets(fetched_slots[p][i])) >= 3

\* ------------------------------------------------------------ C2

\* C2: no slot label occurs in more than one block of the log.
C2_NoDuplicateLabel ==
    LET labels == block_labels(file.text)
    IN  \A i, j \in 1..Len(labels) : i # j => labels[i] # labels[j]

\* ------------------------------------------------------------ C3

\* C3: every block of the log is of a slot that had, when it was written, at
\* least 3 assets with a yes token outside "N/A", "Error", "Not indexed".
C3_OnlyValidated ==
    LET starts == block_starts(file.text)
    IN  \A k \in 1..Len(starts) :
            Cardinality(valid_yes_in_block(file.text, starts, k)) >= 3

\* the log holds a block of a slot with exactly 3 assets that have a token
C3_Witness ==
    LET starts == block_starts(file.text)
    IN  \E k \in 1..Len(starts) :
            Cardinality(valid_yes_in_block(file.text, starts, k)) = 3

\* ------------------------------------------------------------ C4

\* C4: the filter run on one slot whose label is not recorded accepts the
\* slot iff at least 3 of its assets have a yes token outside "N/A",
\* "Error", "Not indexed", whatever the no tokens are; a slot whose label is
\* recorded is not accepted.
C4_QuorumBoundary ==
    (call.op = "select" /\ ret.done) =>
        LET slot == call.slots[1]
            n    == Cardinality(valid_assets(slot))
        IN  IF slot.label \in call.labels
            THEN ret.value = <<>>
            ELSE /\ (n >= 3) => ret.value = <<slot>>
                 /\ (n < 3)  => ret.value = <<>>

\* the filter has accepted a slot with exactly 3 tokens, of which one comes
\* with a no token of "N/A"
C4_Witness ==
    /\ call.op = "select"
    /\ ret.done
    /\ ret.value # <<>>
    /\ Cardinality(valid_assets(call.slots[1])) = 3
    /\ \E a \in valid_assets(call.slots[1]) :
           call.slots[1].markets[a].no = <<"N/A">>

\* ------------------------------------------------------------ C5

\* C5: the blocks of the log before a step are a prefix of the blocks of the
\* log after it.
C5_AppendOnly ==
    [][IsPrefix(blocks_of(file.text), blocks_of(file'.text))]_vars

\* ------------------------------------------------------------ C6

\* the lookup of the market of a coin at a timestamp fails: the request
\* raises or the service answers with a status that is not 200
lookup_fails(coin, ts) ==
    LET resp == service_answer(outage, coin, ts)
    IN  resp.raises \/ resp.status # 200

\* C6: whatever lookups fail and in whatever order the lookups end,
\* fetch_upcoming_slots returns COUNT slots with one entry per asset; the
\* entry of slot i and asset a is "Error", "Error" exactly when the lookup
\* of (i, a) failed, and else has the URL and the tokens of that market.
C6_FaultIsolation ==
    \A p \in Procs :
        pc[p] = "filter" =>
            LET base == now - (now % INTERVAL)
            IN  /\ Len(fetched_slots[p]) = COUNT
                /\ \A i \in 1..COUNT :
                     /\ DOMAIN fetched_slots[p][i].markets = {"BTC", "ETH", "SOL", "XRP"}
                     /\ \A c \in 1..Len(CRYPTOS) :
                          LET ts    == base + i * INTERVAL
                              entry == fetched_slots[p][i].markets[upper(CRYPTOS[c])]
                              held  == service_answer(outage, CRYPTOS[c], ts).tokens
                          IN  /\ entry.url = <<"https://polymarket.com/event/"
                                                 \o slug_of(CRYPTOS[c], ts)>>
                              /\ (entry.yes = <<"Error">> /\ entry.no = <<"Error">>)
                                     <=> lookup_fails(CRYPTOS[c], ts)
                              /\ ~lookup_fails(CRYPTOS[c], ts) =>
                                     /\ entry.yes # <<"Error">>
                                     /\ entry.no # <<"Error">>
                                     /\ held # <<>> =>
                                           /\ entry.yes = token_id(CRYPTOS[c], ts, 1)
                                           /\ entry.no = token_id(CRYPTOS[c], ts, 2)

\* fetch_upcoming_slots has returned a slot in which the lookup of one
\* asset failed and the lookup of another gave its tokens
C6_Witness ==
    \E p \in Procs :
        /\ pc[p] = "filter"
        /\ \E i \in 1..Len(fetched_slots[p]) :
             \E a, b \in DOMAIN fetched_slots[p][i].markets :
                /\ fetched_slots[p][i].markets[a].yes = <<"Error">>
                /\ fetched_slots[p][i].markets[a].no = <<"Error">>
                /\ fetched_slots[p][i].markets[b].yes \notin NotValidYes
                /\ fetched_slots[p][i].markets[b].no \notin NotValidYes

\* ------------------------------------------------------------ C7

\* the request raised, the status is not 200, or the body is no JSON object
FailsBeforeTokens(resp) ==
    resp.raises \/ resp.status # 200 \/ resp.body # "object"

\* the token array is missing or has fewer than 2 elements
TokensMissingOrShort(resp) ==
    resp.field = "absent" \/ (resp.field = "array" /\ Len(resp.tokens) < 2)

\* C7 as stated: every kind of lookup failure, a missing or undersized token
\* array among them, makes _fetch_single_market return "Error" for both
\* tokens.
C7_EveryFailureIsError ==
    (call.op = "fetch" /\ ret.done) =>
        ((FailsBeforeTokens(call.resp) \/ TokensMissingOrShort(call.resp))
            => (ret.value.yes = <<"Error">> /\ ret.value.no = <<"Error">>))

\* C7: a request that raises, a status that is not 200, a body that is no
\* JSON object, and a clobTokenIds that is null or no JSON make
\* _fetch_single_market return "Error" for both tokens; a missing or
\* undersized token array in a 200 answer does not: each token the array
\* lacks is "N/A", and no token is "Error".
C7_FailureConversion ==
    (call.op = "fetch" /\ ret.done) =>
        /\ (FailsBeforeTokens(call.resp) \/ call.resp.field \in {"null", "garbage"})
              => (ret.value.yes = <<"Error">> /\ ret.value.no = <<"Error">>)
        /\ (~FailsBeforeTokens(call.resp) /\ TokensMissingOrShort(call.resp))
              => /\ ret.value.no = <<"N/A">>
                 /\ ret.value.yes # <<"Error">>
                 /\ (call.resp.field = "absent" \/ call.resp.tokens = <<>>)
                        => ret.value.yes = <<"N/A">>

\* _fetch_single_market has returned "Error", "Error" for an answer with a
\* status other than 200 whose body holds both tokens
C7_Witness ==
    /\ call.op = "fetch"
    /\ ret.done
    /\ ~call.resp.raises
    /\ call.resp.status # 200
    /\ call.resp.body = "object"
    /\ call.resp.field = "array"
    /\ Len(call.resp.tokens) >= 2
    /\ ret.value.yes = <<"Error">>
    /\ ret.value.no = <<"Error">>

\* ------------------------------------------------------------ C8

\* C8: for a 200 answer whose clobTokenIds decodes to an array of n tokens,
\* the yes token is element 0 if n >= 1 and else "N/A", the no token is
\* element 1 if n >= 2 and else "N/A", and neither is "Error".
C8_TokenParsing ==
    (/\ call.op = "fetch" /\ ret.done
     /\ ~call.resp.raises /\ call.resp.status = 200
     /\ call.resp.body = "object" /\ call.resp.field = "array") =>
        LET n == Len(call.resp.tokens)
        IN  /\ n >= 1 => ret.value.yes = call.resp.tokens[1]
            /\ n = 0  => ret.value.yes = <<"N/A">>
            /\ n >= 2 => ret.value.no = call.resp.tokens[2]
            /\ n < 2  => ret.value.no = <<"N/A">>
            /\ ret.value.yes # <<"Error">>
            /\ ret.value.no # <<"Error">>

\* _fetch_single_market has returned the one token of an array of length 1
\* as the yes token, and "N/A" as the no token
C8_Witness ==
    /\ call.op = "fetch"
    /\ ret.done
    /\ call.resp.status = 200
    /\ call.resp.body = "object"
    /\ call.resp.field = "array"
    /\ Len(call.resp.tokens) = 1
    /\ ret.value.yes = call.resp.tokens[1]
    /\ ret.value.no = <<"N/A">>

\* ------------------------------------------------------------ C9

\* the URLs of the BTC markets of a text, in order
btc_urls(text) ==
    LET at(i) == text[i] = "BTC:"
        places == SelectSeq([i \in 1..Len(text) |-> i], at)
    IN  [k \in 1..Len(places) |-> text[places[k] + 2]]

\* list a is list b without some of its elements, the others in b's order
IsSubsequence(a, b) ==
    /\ \A k \in 1..Len(a) : \E i \in 1..Len(b) : b[i] = a[k]
    /\ \A k, l \in 1..Len(a) : \A i, j \in 1..Len(b) :
          (k < l /\ b[i] = a[k] /\ b[j] = a[l]) => i < j

\* C9: in whatever order the lookups end, the i-th slot fetch_upcoming_slots
\* returns is the slot of the i-th timestamp after the reference time, the
\* accepted slots are a subsequence of the returned slots in their order,
\* and the append writes one block per accepted slot, in that order, after
\* the blocks the log had.
C9_OrderPreserved ==
    [][\A p \in Procs :
          /\ (pc[p] = "resolve" /\ pc'[p] = "filter") =>
                \A i \in 1..COUNT :
                    LET ts == (now - (now % INTERVAL)) + i * INTERVAL
                    IN  /\ Len(fetched_slots'[p]) = COUNT
                        /\ fetched_slots'[p][i].label = <<display_time(ts)>>
                        /\ fetched_slots'[p][i].markets["BTC"].url =
                              <<"https://polymarket.com/event/" \o slug_of("btc", ts)>>
          /\ (pc[p] = "filter" /\ pc'[p] # "filter") =>
                IsSubsequence(new_slots'[p], fetched_slots[p])
          /\ (pc[p] = "append_write" /\ pc'[p] = "idle") =>
                btc_urls(file'.text) =
                    btc_urls(file.text) \o
                    [k \in 1..Len(new_slots[p]) |-> new_slots[p][k].markets["BTC"].url[1]]
      ]_vars

\* the accepted slots are about to be written: there are at least 2 of
\* them, and between two of them a returned slot was not accepted
C9_Witness ==
    \E p \in Procs :
        /\ pc[p] = "append_write"
        /\ Len(new_slots[p]) >= 2
        /\ \E i, j, k \in 1..Len(fetched_slots[p]) :
              /\ i < j /\ j < k
              /\ fetched_slots[p][i] = new_slots[p][1]
              /\ fetched_slots[p][k] = new_slots[p][2]

\* ------------------------------------------------------------ C10

\* C10: append_new_slots called with no slot returns 0, reads and writes
\* nothing and leaves the log, absent or not, as it was; the second half of
\* discover_and_append leaves the log as it was when it accepts no slot.
C10_NoOpWrite ==
    /\ (call.op = "append" /\ ret.done /\ call.slots = <<>>) =>
          /\ ret.value.count = 0
          /\ ret.value.reads = 0
          /\ ret.value.writes = 0
          /\ ret.value.file = call.f
    /\ (call.op = "tail" /\ ret.done /\ ret.value.new_slots = <<>>) =>
          ret.value.file = call.f

\* append_new_slots has returned from a call with no slot and no log
C10_Witness ==
    /\ call.op = "append"
    /\ ret.done
    /\ call.slots = <<>>
    /\ call.f = NoFile
    /\ ret.value.count = 0
    /\ ~ret.value.file.exists

\* ------------------------------------------------------------ C11

\* C11: the labels get_existing_slot_labels finds in the text
\* format_slot_block makes of a slot are the slot's label and nothing else.
C11_RoundTrip ==
    (call.op = "roundtrip" /\ ret.done) => ret.value = {call.slot.label}

\* C11 for the slots the program makes: when the label has no line end and
\* neither begins with a blank nor is empty, and no url or token holds the
\* text of a slot line, the labels found are the slot's label and nothing else
C11_RoundTripWellFormed ==
    (/\ call.op = "roundtrip" /\ ret.done
     /\ call.slot.label # <<>>
     /\ ~IsSpace(call.slot.label[1])
     /\ \A i \in 1..Len(call.slot.label) : call.slot.label[i] # NL
     /\ \A a \in DOMAIN call.slot.markets :
           \A f \in {"url", "yes", "no"} :
              \A i \in 1..Len(call.slot.markets[a][f]) :
                 call.slot.markets[a][f][i] # "<clock>")
        => ret.value = {call.slot.label}

\* ------------------------------------------------------------ C12

\* C12: for reference time now, interval I and count N the generated
\* timestamps are base + i * I for i = 1..N with base = now - (now mod I);
\* they are strictly increasing, multiples of I, and greater than now.
C12_SlotGeneration ==
    (call.op = "generate" /\ ret.done) =>
        LET base == call.now - (call.now % call.interval)
            ts   == ret.value
        IN  /\ Len(ts) = call.count
            /\ \A i \in 1..call.count :
                  /\ ts[i] = base + i * call.interval
                  /\ ts[i] % call.interval = 0
                  /\ ts[i] > call.now
                  /\ i < call.count => ts[i] < ts[i + 1]

\* the generator has returned 3 timestamps for the reference time 1003 and
\* the interval 10: 1010, 1020, 1030
C12_Witness ==
    /\ call.op = "generate"
    /\ ret.done
    /\ call.now = 1003
    /\ call.interval = 10
    /\ ret.value = <<1010, 1020, 1030>>

\* ------------------------------------------------------------ C13

\* the places of a process in a cycle
RunningAt == {"resolve", "filter", "append_read", "append_write"}

\* C13: fetcher_loop is Idle or Running; it leaves Idle only when a period
\* has elapsed, and returns to Idle only from the end of a cycle: from the
\* filter that found nothing new or from the write, done or failed.  No
\* period elapses and no cycle begins while a cycle is in progress, and the
\* log changes only in the write of the one cycle in progress, which finds
\* the log as that cycle read it.
C13_OneCycleAtATime ==
    [][/\ pc["loop"] \in {"idle"} \cup RunningAt
       /\ pc'["loop"] \in {"idle"} \cup RunningAt
       /\ (pc["loop"] = "idle" /\ pc'["loop"] # "idle") =>
             /\ pc'["loop"] = "resolve"
             /\ periods' = periods + 1
             /\ now' = now + FETCH_INTERVAL
       /\ (pc["loop"] # "idle" /\ pc'["loop"] = "idle") =>
             pc["loop"] \in {"filter", "append_write"}
       /\ (periods' # periods \/ now' # now) => pc["loop"] = "idle"
       /\ file' # file =>
             /\ pc["loop"] = "append_write"
             /\ pc'["loop"] = "idle"
             /\ existing["loop"] = read_existing(file)
      ]_vars

\* fetcher_loop is about to write in its second cycle, into the log its
\* first cycle wrote
C13_Witness ==
    /\ periods = 2
    /\ pc["loop"] = "append_write"
    /\ file.exists
    /\ block_starts(file.text) # <<>>

\* ------------------------------------------------------------ C14

\* the write of the cycle of fetcher_loop does not leave the new content
WriteFails ==
    /\ pc["loop"] = "append_write"
    /\ pc'["loop"] # "append_write"
    /\ file' # [exists |-> TRUE,
                text |-> new_content(existing["loop"], new_slots["loop"])]

\* the last cycle of fetcher_loop ended in an exception
LastCycleFailed == periods > 0 /\ pc["loop"] = "idle" /\ ~prev.set

\* C14: a write that fails ends the cycle at once, without the return of
\* append_new_slots or of discover_and_append, and leaves fetcher_loop Idle;
\* after a failed cycle, unless the periods of the model are used up, the
\* next cycle begins.
C14_FaultContained ==
    /\ [][WriteFails =>
             /\ pc'["loop"] = "idle"
             /\ ~prev'.set
             /\ new_slots'["loop"] = <<>>]_vars
    /\ \A n \in 1..(MaxPeriods - 1) :
          (LastCycleFailed /\ periods = n)
              ~> (pc["loop"] = "resolve" /\ periods = n + 1)

\* the second cycle of fetcher_loop is in progress after a first cycle whose
\* write failed and left a part of the new content
C14_Witness ==
    /\ periods = 2
    /\ pc["loop"] = "resolve"
    /\ ~prev.set
    /\ file.exists
    /\ block_starts(file.text) # <<>>

\* ------------------------------------------------------------ C15

\* the two runs at now = 1000 with I = 10 and N = 2, all coins indexed
ScenarioOf(assets) ==
    /\ call.op = "scenario"
    /\ ret.done
    /\ call.now = 1000
    /\ call.interval = 10
    /\ call.count = 2
    /\ call.assets = assets
    /\ call.indexed = {assets[c] : c \in 1..Len(assets)}

\* C15 as stated: with the assets A and B, both resolved at both slots, and
\* no log, the first run accepts both slots and appends them in ascending
\* order of timestamp, and the second run appends none.
C15_TwoAssetsAccepted ==
    ScenarioOf(<<"a", "b">>) =>
        /\ Len(ret.value.first.new_slots) = 2
        /\ block_labels(ret.value.first.file.text) =
              <<display_time(1010), display_time(1020)>>
        /\ ret.value.second.new_slots = <<>>
        /\ ret.value.second.file = ret.value.first.file

\* C15: with the assets A and B, both resolved at both slots, and no log,
\* the first run accepts no slot, as 2 valid tokens are fewer than 3, and
\* makes no log, and so does the second; with the 4 assets of CRYPTOS, all
\* resolved, the first run accepts both slots and appends them in ascending
\* order of timestamp, and the second run appends none and leaves the log.
C15_TwoRuns ==
    /\ ScenarioOf(<<"a", "b">>) =>
          /\ ret.value.first.new_slots = <<>>
          /\ ret.value.first.file = NoFile
          /\ ret.value.second.new_slots = <<>>
          /\ ret.value.second.file = NoFile
    /\ ScenarioOf(CRYPTOS) =>
          /\ Len(ret.value.first.new_slots) = 2
          /\ block_labels(ret.value.first.file.text) =
                <<display_time(1010), display_time(1020)>>
          /\ btc_urls(ret.value.first.file.text) =
                <<"https://polymarket.com/event/btc-updown-15m-1010",
                  "https://polymarket.com/event/btc-updown-15m-1020">>
          /\ ret.value.second.new_slots = <<>>
          /\ ret.value.second.file = ret.value.first.file

\* the two runs with the assets A and B have returned, and the first
\* resolved both slots with two valid tokens each
C15_Witness ==
    /\ ScenarioOf(<<"a", "b">>)
    /\ ~ret.value.second.file.exists
    /\ \A i \in 1..2 :
          Cardinality(valid_assets(
              fetch_upcoming_slots(1000, 10, 2, <<"a", "b">>, {"a", "b"})[i])) = 2

\* ------------------------------------------------------------ C16

\* C16: two slots of a cycle that have the same label have the same
\* timestamp.
C16_LabelInjective ==
    \A p \in Procs :
        \A i, j \in 1..Len(slot_meta[p]) :
            slot_meta[p][i].label = slot_meta[p][j].label
                => slot_meta[p][i].timestamp = slot_meta[p][j].timestamp

\* ------------------------------------------------------------ C17

\* the write of a cycle keeps the blocks of the log and adds no label that
\* the log has or that it adds twice
WriteKeepsLog(p) ==
    LET old == block_labels(file.text)
        new == block_labels(file'.text)
    IN  /\ IsPrefix(blocks_of(file.text), blocks_of(file'.text))
        /\ \A i, j \in 1..Len(new) :
              (i # j /\ new[i] = new[j]) => (i <= Len(old) /\ j <= Len(old))

\* C17, for one scheduler: no write of fetcher_loop loses a block of the
\* log, and none writes a label that the log has or writes a label twice.
C17_OneSchedulerSafe ==
    [][(pc["loop"] = "append_write" /\ pc'["loop"] = "idle")
          => WriteKeepsLog("loop")]_vars

\* C17, for two instances: a process is about to write content that lacks a
\* block the other process has written since the first read the log
C17_LostUpdate ==
    \E p \in Procs :
        /\ pc[p] = "append_write"
        /\ ~IsPrefix(blocks_of(file.text),
                     blocks_of(new_content(existing[p], new_slots[p])))

\* C17, for two instances: a process is about to write a label after the
\* blocks it read, which hold that label: the other process wrote it after
\* the first had read the labels
C17_WrittenTwice ==
    \E p \in Procs :
        /\ pc[p] = "append_write"
        /\ \E i \in 1..Len(new_slots[p]) :
              \E k \in 1..Len(block_labels(existing[p])) :
                 <<block_labels(existing[p])[k]>> = new_slots[p][i].label

\* ------------------------------------------------------------ C18

\* the URL of the BTC market of the slot of a timestamp, which only a block
\* of that slot holds
trace_of(ts) == "https://polymarket.com/event/" \o slug_of("btc", ts)

\* C18: a slot skipped for want of a quorum has no block in the log when
\* its cycle ends, and a later cycle that generates its timestamp and
\* resolves at least 3 valid yesTokens for it accepts it, once.
C18_Reconsidered ==
    [][\A p \in Procs :
          /\ (pc[p] \in {"filter", "append_write"} /\ pc'[p] = "idle") =>
                \A ts \in below_quorum(p) :
                    \A k \in 1..Len(btc_urls(file'.text)) :
                        btc_urls(file'.text)[k] # trace_of(ts)
          /\ (pc[p] = "filter" /\ pc'[p] # "filter") =>
                \A i \in 1..Len(fetched_slots[p]) :
                    (/\ slot_meta[p][i].timestamp \in prev.rejected
                     /\ valid_tokens(fetched_slots[p][i]) >= QUORUM)
                        => Cardinality({k \in 1..Len(new_slots'[p]) :
                              new_slots'[p][k] = fetched_slots[p][i]}) = 1
      ]_vars

\* C18, where the label of the slot is not in the log: a slot skipped for
\* want of a quorum by an earlier cycle is accepted once by the cycle that
\* resolves at least 3 valid yesTokens for it
C18_ReconsideredUnlessLabelled ==
    [][\A p \in Procs :
          (pc[p] = "filter" /\ pc'[p] # "filter") =>
                \A i \in 1..Len(fetched_slots[p]) :
                    (/\ slot_meta[p][i].timestamp \in prev.rejected
                     /\ fetched_slots[p][i].label \notin existing_labels[p]
                     /\ valid_tokens(fetched_slots[p][i]) >= QUORUM)
                        => Cardinality({k \in 1..Len(new_slots'[p]) :
                              new_slots'[p][k] = fetched_slots[p][i]}) = 1
      ]_vars

\* a slot skipped for want of a quorum by an earlier cycle is about to be
\* written
C18_AcceptedLater ==
    \E i \in 1..Len(new_slots["loop"]) :
        \E j \in 1..Len(slot_meta["loop"]) :
            /\ pc["loop"] = "append_write"
            /\ fetched_slots["loop"][j] = new_slots["loop"][i]
            /\ slot_meta["loop"][j].timestamp \in prev.rejected

\* ------------------------------------------------------------ C19

\* the places of a text that hold a line of 70 dashes
separators(text) == {i \in 1..Len(text) : text[i] = DASHES}

\* the text ends with a line of 70 dashes and a line end, and has no other
\* line of dashes
ends_with_one_separator(text) ==
    LET n == Len(text)
    IN  /\ n >= 3
        /\ text[n] = NL
        /\ text[n - 1] = DASHES
        /\ text[n - 2] = NL
        /\ separators(text) = {n - 1}

\* C19: when a cycle writes its accepted slots into a log that was absent
\* or ended with its one line of dashes, the log it leaves ends with a line
\* of 70 dashes and a line end, has no other line of dashes, and holds the
\* blocks it had, in their order, followed by the blocks of the accepted
\* slots.
C19_SeparatorInvariant ==
    [][\A p \in Procs :
          (/\ pc[p] = "append_write" /\ pc'[p] = "idle"
           /\ ~file.exists \/ ends_with_one_separator(file.text))
             => /\ new_slots[p] # <<>>
                /\ file'.exists
                /\ ends_with_one_separator(file'.text)
                /\ blocks_of(file'.text) =
                      blocks_of(file.text) \o
                      [k \in 1..Len(new_slots[p]) |->
                          format_slot_block(new_slots[p][k])]
      ]_vars

\* fetcher_loop has read a log that ends with its line of dashes, has taken
\* the line off what it read, and is about to write the blocks of that log
\* followed by new ones
C19_Witness ==
    /\ pc["loop"] = "append_write"
    /\ ends_with_one_separator(file.text)
    /\ blocks_of(file.text) # <<>>
    /\ separators(existing["loop"]) = {}
    /\ blocks_of(existing["loop"]) = blocks_of(file.text)
    /\ new_slots["loop"] # <<>>

\* ------------------------------------------------------------ C20

\* the timestamps fetcher_loop may generate in the periods of a run
horizon ==
    {timestamps_at(FirstNow, INTERVAL, MaxPeriods + COUNT)[i] :
        i \in 1..(MaxPeriods + COUNT)}

\* the timestamp of each block of a text, in order, read from the URL of
\* its BTC market
block_timestamps(text) ==
    LET urls == btc_urls(text)
    IN  [k \in 1..Len(urls) |->
           CHOOSE ts \in horizon : trace_of(ts) = urls[k]]

ascending(list) == \A k \in 1..(Len(list) - 1) : list[k] < list[k + 1]

\* C20: the blocks of the log are in strictly ascending order of timestamp.
C20_GlobalOrder == ascending(block_timestamps(file.text))

\* C20, as the code has it: a write keeps the blocks of the log, puts after
\* them one block per accepted slot in strictly ascending order of
\* timestamp, and leaves a log that was in ascending order in ascending
\* order unless it writes a slot that an earlier cycle skipped for want of a
\* quorum.
C20_OrderedByCycle ==
    [][(pc["loop"] = "append_write" /\ pc'["loop"] = "idle") =>
          LET old   == block_timestamps(file.text)
              new   == block_timestamps(file'.text)
              added == SubSeq(new, Len(old) + 1, Len(new))
          IN  /\ IsPrefix(old, new)
              /\ Len(added) = Len(new_slots["loop"])
              /\ ascending(added)
              /\ (/\ ascending(old)
                  /\ \A k \in 1..Len(added) : added[k] \notin prev.rejected)
                    => ascending(new)
      ]_vars

\* fetcher_loop is about to write, after the blocks of an earlier cycle,
\* slots that no cycle has skipped for want of a quorum
C20_Witness ==
    /\ pc["loop"] = "append_write"
    /\ block_timestamps(file.text) # <<>>
    /\ ascending(block_timestamps(file.text))
    /\ new_slots["loop"] # <<>>
    /\ \A j \in 1..Len(slot_meta["loop"]) :
          (\E i \in 1..Len(new_slots["loop"]) :
              fetched_slots["loop"][j] = new_slots["loop"][i])
            => slot_meta["loop"][j].timestamp \notin prev.rejected

\* C20: fetcher_loop has written a slot that an earlier cycle skipped for
\* want of a quorum after blocks of later timestamps, in a log that has no
\* label twice
C20_WrittenLate ==
    /\ ~ascending(block_timestamps(file.text))
    /\ \A k, l \in 1..Len(block_labels(file.text)) :
          block_labels(file.text)[k] = block_labels(file.text)[l] => k = l

====
